---- MODULE Spec2Model ----
(***************************************************************************)
(* SJCVector<T>: the unique_ptr-based resizable array of SJCVector.h and   *)
(* the special member functions that manage its buffer.                    *)
(*                                                                         *)
(* A container is a record of the class's data members.  Buffers live in   *)
(* a heap indexed by buffer identity, so that sharing, release and         *)
(* out-of-bounds writes are visible.  Slot i of the C++ array is cell i+1  *)
(* of the buffer's sequence.                                               *)
(***************************************************************************)
EXTENDS Integers, Sequences, FiniteSets, TLC

\* ---------------------------------------------------------------- bounds
MaxCap == 3
MaxCapOne == 7
MaxPush == 2
MaxVal == 3
MaxCapLabel == 2
MaxCapRaw == 1
MaxSteps == 4

\* ------------------------------------------------------------- constants
emptyVec == -1
NULL == 0

Names == {"a", "b", "c"}
Temps == {"copy", "retVec", "tmp"}
Slots == Names \cup Temps
NoVec == "none"
BufIds == 1..Cardinality(Slots)
Labels == {"mary"}
PushVals == 1..MaxPush
FirstGarbage == {0, 1}

VARIABLES vecs, heap, crashed, lastOp, run, steps

vars == <<vecs, heap, crashed, lastOp, run, steps>>

\* ------------------------------------------------------ memory primitives
Zeros(n) == [i \in 1..n |-> 0]

FreeCell == [alloc |-> FALSE, cells |-> <<>>]

\* storage of an object whose constructor has not run / whose destructor has
NoObject == [live |-> FALSE, ptr |-> NULL, size_ |-> 0, first_ |-> 0,
             last_ |-> emptyVec, name_ |-> ""]

\* the allocator hands out a buffer that is not in use
NewId(h) == CHOOSE p \in BufIds : /\ ~h[p].alloc
                                  /\ \A q \in BufIds : ~h[q].alloc => p <= q

\* std::make_unique<T[]>(n): n value-initialised elements
make_unique(h, n) == [h EXCEPT ![NewId(h)] = [alloc |-> TRUE, cells |-> Zeros(n)]]

\* unique_ptr releases what it owns when it is reassigned or destroyed
Release(h, p) == IF p = NULL THEN h ELSE [h EXCEPT ![p] = FreeCell]

\* std::copy(src, src + count, dst) into a destination array of Len(dst)
\* elements: what lands inside the destination, and what is written past
\* its end
CopyInto(src, count, dst) == [i \in 1..Len(dst) |-> IF i <= count THEN src[i] ELSE dst[i]]

CopySpill(src, count, dst) ==
    IF count > Len(dst) THEN [i \in 1..(count - Len(dst)) |-> src[Len(dst) + i]]
    ELSE <<>>

\* the cells a pointer designates (nothing behind a null pointer)
Cells(h, p) == IF p = NULL THEN <<>> ELSE h[p].cells

\* ------------------------------------------------------- member functions
\* Every operator takes the world w = [vecs, heap] and returns the world
\* after the call.

\* data members before the constructor body runs
Begin(w, this, name, first) ==
    [w EXCEPT !.vecs[this] = [live |-> TRUE, ptr |-> NULL, size_ |-> 0,
                              first_ |-> first, last_ |-> emptyVec, name_ |-> name]]

initSJCVector(w, this, initialSize) ==
    LET p == NewId(w.heap)
        h1 == Release(make_unique(w.heap, initialSize), w.vecs[this].ptr)
    IN [vecs |-> [w.vecs EXCEPT ![this].size_ = initialSize,
                                ![this].ptr = p,
                                ![this].first_ = 0,
                                ![this].last_ = emptyVec],
        heap |-> h1]

rename(w, this, newName) == [w EXCEPT !.vecs[this].name_ = newName]

ctor_default(w, this) == initSJCVector(Begin(w, this, "", 0), this, 1)

ctor_size(w, this, size) == initSJCVector(Begin(w, this, "", 0), this, size)

ctor_name(w, this, name, size) == initSJCVector(Begin(w, this, name, 0), this, size)

dtor(w, this) ==
    [vecs |-> [w.vecs EXCEPT ![this] = NoObject],
     heap |-> Release(w.heap, w.vecs[this].ptr)]

copy_ctor(w, this, rhs) ==
    LET w1 == initSJCVector(Begin(w, this, "", 0), this, w.vecs[rhs].size_)
        me == w1.vecs[this]
        src == Cells(w1.heap, w1.vecs[rhs].ptr)
        dst == w1.heap[me.ptr].cells
        w2 == [vecs |-> [w1.vecs EXCEPT ![this].last_ = w1.vecs[rhs].last_],
               heap |-> [w1.heap EXCEPT ![me.ptr].cells = CopyInto(src, me.size_, dst)]]
    IN rename(w2, this, "copy")

\* mutant: the move constructor copies the members and leaves rhs as it was
move_ctor_keep(w, this, rhs, g) ==
    LET w1 == Begin(w, this, "", g)
        r == w1.vecs[rhs]
    IN [w1 EXCEPT !.vecs[this].ptr = r.ptr,
                  !.vecs[this].size_ = r.size_,
                  !.vecs[this].last_ = r.last_]

\* first_ is not initialised by the move constructor: g is what it holds
move_ctor(w, this, rhs, g) ==
    LET w1 == Begin(w, this, "", g)
        r == w1.vecs[rhs]
    IN [w1 EXCEPT !.vecs[this].ptr = r.ptr,
                  !.vecs[this].size_ = r.size_,
                  !.vecs[this].last_ = r.last_,
                  !.vecs[rhs].ptr = NULL,
                  !.vecs[rhs].size_ = 0,
                  !.vecs[rhs].last_ = emptyVec]

\* mutant: swap exchanges the labels as well
swap_names(w, this, rhs) ==
    LET t == w.vecs[this]
        r == w.vecs[rhs]
    IN [w EXCEPT !.vecs[this] = [r EXCEPT !.live = t.live],
                 !.vecs[rhs] = [t EXCEPT !.live = r.live]]

swap(w, this, rhs) ==
    LET t == w.vecs[this]
        r == w.vecs[rhs]
    IN [w EXCEPT !.vecs[this].ptr = r.ptr,
                 !.vecs[this].size_ = r.size_,
                 !.vecs[this].first_ = r.first_,
                 !.vecs[this].last_ = r.last_,
                 !.vecs[rhs].ptr = t.ptr,
                 !.vecs[rhs].size_ = t.size_,
                 !.vecs[rhs].first_ = t.first_,
                 !.vecs[rhs].last_ = t.last_]

\* mutant: the assignment operator forgets to swap
assign_noswap(w, this) == w

\* operator=(SJCVector copy): the parameter object lives in slot "copy"
assign(w, this) == swap(w, "copy", this)

\* mutant: resize forgets to clamp last_
ClampLastNone(last, newSize) == last

\* the clamp of last_ in resize(newSize)
ClampLast(last, newSize) == IF newSize <= last THEN newSize - 1 ELSE last

\* mutant: resize copies nothing out of the old storage
ResizeCopyNone(me) == 0

\* how many elements resize copies out of the old storage
ResizeCopyCount(me) == me.size_

\* resize(newSize); the field spill holds the elements std::copy wrote past
\* the end of the new storage
resize(w, this, newSize) ==
    LET n == IF newSize = 0 THEN 1 ELSE newSize
        me == w.vecs[this]
        newptr == NewId(w.heap)
        h1 == make_unique(w.heap, n)
        src == Cells(h1, me.ptr)
        dst == h1[newptr].cells
        copies == me.last_ >= 0 /\ n > 0
        last1 == IF me.last_ >= 0 THEN ClampLast(me.last_, n) ELSE me.last_
        h2 == IF copies
              THEN [h1 EXCEPT ![newptr].cells = CopyInto(src, ResizeCopyCount(me), dst)]
              ELSE h1
    IN [vecs |-> [w.vecs EXCEPT ![this].last_ = last1,
                                ![this].ptr = newptr,
                                ![this].size_ = n],
        heap |-> Release(h2, me.ptr),
        spill |-> IF copies THEN CopySpill(src, ResizeCopyCount(me), dst) ELSE <<>>]

\* mutant: push_back grows one append early
NeedsGrowEager(me) == me.size_ <= me.last_ + 2

\* the test that makes push_back grow the storage first
NeedsGrow(me) == (me.size_ = me.last_ + 1) \/ me.size_ = 0

\* mutant: growth doubles without the + 1
GrowSizeDouble(size) == size * 2

\* resize(): geometric growth
GrowSize(size) == size * 2 + 1

\* mutant: push_back writes one slot too far
SlotOff(last) == last + 2

\* the cell that ptr_[last_] designates
Slot(last) == last + 1

push_back(w, this, newValue) ==
    LET me == w.vecs[this]
        r == resize(w, this, GrowSize(me.size_))
        w1 == IF NeedsGrow(me) THEN [vecs |-> r.vecs, heap |-> r.heap] ELSE w
        me1 == w1.vecs[this]
    IN IF me1.size_ > me1.last_ + 1
       THEN [vecs |-> [w1.vecs EXCEPT ![this].last_ = me1.last_ + 1],
             heap |-> [w1.heap EXCEPT ![me1.ptr].cells[Slot(me1.last_ + 1)] = newValue]]
       ELSE w1

\* ------------------------------------------------------ allocation failure
\* std::make_unique<T[]> never returns null: when memory cannot be had it
\* throws std::bad_alloc.  resize is then left through the exception before
\* any member is assigned (its else branch is never taken), and push_back,
\* which has no handler, is left the same way before it stores anything.
\* The field thrown is what the call ends with.
BadAlloc == "bad_alloc"

resize_nomem(w, this, newSize) ==
    [vecs |-> w.vecs, heap |-> w.heap, thrown |-> BadAlloc]

push_back_nomem(w, this, newValue) ==
    IF NeedsGrow(w.vecs[this])
    THEN resize_nomem(w, this, GrowSize(w.vecs[this].size_))
    ELSE [vecs |-> push_back(w, this, newValue).vecs,
          heap |-> push_back(w, this, newValue).heap,
          thrown |-> NoVec]

\* the test by which operator+ refuses its operands
AddRejects(me, other) == (other.size_ = 0) \/ (me.size_ = 0) \/ (other.last_ /= me.last_)

\* mutant: the loop stops one element early (i < last_)
AddLoopShort(acc, other, last) ==
    [i \in 1..Len(acc) |-> IF i <= last THEN acc[i] + other[i] ELSE acc[i]]

\* the loop of operator+: retVec.ptr_[i] += rhs.ptr_[i] for i in 0..last_
AddLoop(acc, other, last) ==
    [i \in 1..Len(acc) |-> IF i <= last + 1 THEN acc[i] + other[i] ELSE acc[i]]

\* operator+(rhs), its result constructed in slot ret.  The local retVec is
\* the result object itself when the compiler elides the copy on return
\* (nrvo); otherwise the result is move-constructed from it.
operator_plus(w, this, rhs, ret, nrvo, g) ==
    IF AddRejects(w.vecs[this], w.vecs[rhs])
    THEN ctor_default(w, ret)
    ELSE LET local == IF nrvo THEN ret ELSE "retVec"
             w1 == rename(copy_ctor(w, local, this), local, "retVec")
             me == w1.vecs[local]
             other == Cells(w1.heap, w1.vecs[rhs].ptr)
             w2 == [w1 EXCEPT !.heap[me.ptr].cells = AddLoop(@, other, w1.vecs[this].last_)]
         IN IF nrvo THEN w2 ELSE dtor(move_ctor(w2, ret, "retVec", g), "retVec")

\* ---------------------------------------------------- raw-pointer variant
\* The SJCVector<T> that manages its buffer through a plain T* ptr_ with
\* new[] and delete[].  Its operators work on a world that has a third
\* field, bad: delete[] has been applied to something that is not an
\* allocated buffer.

\* what an element that was never written holds
Indeterminate == -1

\* new T[n] (fill = Indeterminate) and new T[n]() (fill = 0)
new_array(w, n, fill) ==
    [w EXCEPT !.heap[NewId(w.heap)] = [alloc |-> TRUE, cells |-> [i \in 1..n |-> fill]]]

\* delete[] p
delete_array(w, p) ==
    IF p = NULL THEN w
    ELSE IF w.heap[p].alloc THEN [w EXCEPT !.heap[p] = FreeCell]
    ELSE [w EXCEPT !.bad = TRUE]

\* initSJCVector() of this variant sets the cursor only
raw_init(w, this) ==
    [w EXCEPT !.vecs[this].first_ = 0, !.vecs[this].last_ = emptyVec]

raw_resize(w, this, newSize) ==
    LET n == IF newSize = 0 THEN 1 ELSE newSize
        me == w.vecs[this]
        newptr == NewId(w.heap)
        w1 == new_array(w, n, Indeterminate)
        last1 == IF me.last_ >= 0 THEN ClampLast(me.last_, n) ELSE me.last_
        w2 == IF me.last_ >= 0 /\ n > 0
              THEN [w1 EXCEPT !.heap[newptr].cells =
                                  CopyInto(Cells(w1.heap, me.ptr), last1 + 1, @)]
              ELSE w1
        w3 == delete_array(w2, me.ptr)
    IN [w3 EXCEPT !.vecs[this].last_ = last1,
                  !.vecs[this].ptr = newptr,
                  !.vecs[this].size_ = n]

raw_ctor_default(w, this) == raw_init(Begin(w, this, "", 0), this)

raw_ctor_size(w, this, size) ==
    LET w1 == Begin(w, this, "", 0)
        w2 == IF size /= 0
              THEN [new_array(w1, size, 0) EXCEPT !.vecs[this].ptr = NewId(w1.heap)]
              ELSE w1
    IN raw_init([w2 EXCEPT !.vecs[this].size_ = size], this)

raw_ctor_name(w, this, name, newSize) ==
    raw_resize(raw_init(Begin(w, this, name, 0), this), this, newSize)

raw_dtor(w, this) ==
    [delete_array(w, w.vecs[this].ptr) EXCEPT !.vecs[this] = NoObject]

\* first_ is not initialised by the copy constructor: g is what it holds
raw_copy_ctor(w, this, rhs, g) ==
    LET w1 == Begin(w, this, "", g)
        r == w1.vecs[rhs]
        p == NewId(w1.heap)
        w2 == new_array(w1, r.last_ + 1, Indeterminate)
        w3 == [w2 EXCEPT !.vecs[this].ptr = p,
                         !.vecs[this].last_ = r.last_,
                         !.vecs[this].size_ = r.last_ + 1,
                         !.heap[p].cells = CopyInto(Cells(w2.heap, r.ptr), r.last_ + 1, @)]
    IN rename(w3, this, "copy")

\* mutant: the move constructor leaves its source the pointer
raw_move_ctor_share(w, this, rhs) ==
    LET w1 == raw_ctor_default(w, this)
        r == w1.vecs[rhs]
    IN [w1 EXCEPT !.vecs[this].ptr = r.ptr,
                  !.vecs[this].size_ = r.size_,
                  !.vecs[this].last_ = r.last_]

\* SJCVector(SJCVector&& rhs) : SJCVector()
raw_move_ctor(w, this, rhs) ==
    LET w1 == raw_ctor_default(w, this)
        r == w1.vecs[rhs]
    IN [w1 EXCEPT !.vecs[this].ptr = r.ptr,
                  !.vecs[this].size_ = r.size_,
                  !.vecs[this].last_ = r.last_,
                  !.vecs[rhs].ptr = NULL,
                  !.vecs[rhs].size_ = 0,
                  !.vecs[rhs].last_ = emptyVec]

raw_push_back(w, this, newValue) ==
    LET me == w.vecs[this]
        w1 == IF NeedsGrow(me) THEN raw_resize(w, this, GrowSize(me.size_)) ELSE w
        me1 == w1.vecs[this]
    IN IF me1.size_ > me1.last_ + 1
       THEN [w1 EXCEPT !.vecs[this].last_ = me1.last_ + 1,
                       !.heap[me1.ptr].cells[Slot(me1.last_ + 1)] = newValue]
       ELSE w1

\* operator+ of this variant copies rhs and adds the elements of *this
raw_operator_plus(w, this, rhs, ret, nrvo, g) ==
    IF AddRejects(w.vecs[this], w.vecs[rhs])
    THEN raw_ctor_default(w, ret)
    ELSE LET local == IF nrvo THEN ret ELSE "retVec"
             w1 == rename(raw_copy_ctor(w, local, rhs, g), local, "retVec")
             me == w1.vecs[local]
             mine == Cells(w1.heap, w1.vecs[this].ptr)
             w2 == [w1 EXCEPT !.heap[me.ptr].cells = AddLoop(@, mine, w1.vecs[this].last_)]
         IN IF nrvo THEN w2 ELSE raw_dtor(raw_move_ctor(w2, ret, "retVec"), "retVec")

\* ----------------------------------------------- out-of-bounds std::copy
\* Writing past the end of the new storage is undefined behaviour.  What a
\* build does with the spilled elements: nothing observable (they land in
\* memory nobody reads), the process is aborted, or they land on the buffer
\* that follows in memory, after a gap that swallows the first few.
Victims(w, this) ==
    {w.vecs[o].ptr : o \in {n \in Names : n /= this /\ w.vecs[n].live /\ w.vecs[n].ptr /= NULL}}

NoSpill == [kind |-> "none", victim |-> NULL, gap |-> 0]

Outcomes(spill, victims) ==
    IF Len(spill) = 0 THEN {NoSpill}
    ELSE {[kind |-> "stray", victim |-> NULL, gap |-> 0],
          [kind |-> "abort", victim |-> NULL, gap |-> 0]}
         \cup {[kind |-> "clobber", victim |-> p, gap |-> g] :
                  p \in victims, g \in 0..(Len(spill) - 1)}

Clobber(h, spill, p, g) ==
    [h EXCEPT ![p].cells = [i \in 1..Len(@) |-> IF i <= Len(spill) - g
                                                THEN spill[g + i] ELSE @[i]]]

\* ------------------------------------------------------------------ state
\* vecs    the objects, by variable name (Temps are the objects that live
\*         only inside one statement)
\* heap    the buffers
\* crashed the process was aborted by an out-of-bounds write or by a
\*         delete[] of something that is not an allocated buffer
\* lastOp  the statement executed last, with its arguments; ret is the
\*         object it constructs or the exception it ends with
\* run     the values appended to run.v since its construction, as long as
\*         nothing but push_back has been executed since
\* steps   the number of statements executed (counted by Spec only)
World == [vecs |-> vecs, heap |-> heap]

NoRun == [v |-> NoVec, vals |-> <<>>]

Op(op, this, rhs, ret, arg) ==
    [op |-> op, this |-> this, rhs |-> rhs, ret |-> ret, arg |-> arg,
     preSize |-> vecs[this].size_]

Commit(w, op) ==
    /\ vecs' = w.vecs
    /\ heap' = w.heap
    /\ lastOp' = op
    /\ crashed' = FALSE

Init ==
    /\ vecs = [s \in Slots |-> NoObject]
    /\ heap = [p \in BufIds |-> FreeCell]
    /\ crashed = FALSE
    /\ lastOp = [op |-> "start", this |-> NoVec, rhs |-> NoVec, ret |-> NoVec,
                 arg |-> 0, preSize |-> 0]
    /\ run = NoRun
    /\ steps = 0

\* ---------------------------------------------------------------- actions
\* SJCVector<T> v;
ConstructDefault(v) ==
    /\ ~crashed
    /\ ~vecs[v].live
    /\ Commit(ctor_default(World, v), Op("ctor", v, NoVec, NoVec, 1))
    /\ run' = [v |-> v, vals |-> <<>>]

\* SJCVector<T> v(c);
ConstructSize(v, c) ==
    /\ ~crashed
    /\ ~vecs[v].live
    /\ Commit(ctor_size(World, v, c), Op("ctor", v, NoVec, NoVec, c))
    /\ run' = [v |-> v, vals |-> <<>>]

\* SJCVector<T> v("nigel", c);
ConstructNamed(v, c) ==
    /\ ~crashed
    /\ ~vecs[v].live
    /\ Commit(ctor_name(World, v, "nigel", c), Op("ctor", v, NoVec, NoVec, c))
    /\ run' = [v |-> v, vals |-> <<>>]

\* SJCVector<T> v = src;
CopyConstruct(v, src) ==
    /\ ~crashed
    /\ ~vecs[v].live
    /\ vecs[src].live
    /\ Commit(copy_ctor(World, v, src), Op("copy_ctor", v, src, NoVec, 0))
    /\ run' = NoRun

\* SJCVector<T> v(std::move(src));
MoveConstruct(v, src, g) ==
    /\ ~crashed
    /\ ~vecs[v].live
    /\ vecs[src].live
    /\ Commit(move_ctor(World, v, src, g), Op("move_ctor", v, src, NoVec, 0))
    /\ run' = NoRun

\* SJCVector<T>(std::move(v));  a temporary takes v's buffer and dies
MoveAway(v, g) ==
    /\ ~crashed
    /\ vecs[v].live
    /\ Commit(dtor(move_ctor(World, "tmp", v, g), "tmp"),
              Op("move_away", v, NoVec, NoVec, 0))
    /\ run' = NoRun

\* a = b;  the parameter is copy-constructed, swapped with a, destroyed
AssignCopy(a, b) ==
    /\ ~crashed
    /\ vecs[a].live
    /\ vecs[b].live
    /\ Commit(dtor(assign(copy_ctor(World, "copy", b), a), "copy"),
              Op("copy_assign", a, b, NoVec, 0))
    /\ run' = NoRun

\* a = std::move(b);  the parameter is move-constructed from b
AssignMove(a, b, g) ==
    /\ ~crashed
    /\ vecs[a].live
    /\ vecs[b].live
    /\ Commit(dtor(assign(move_ctor(World, "copy", b, g), a), "copy"),
              Op("move_assign", a, b, NoVec, 0))
    /\ run' = NoRun

\* swap(a, b);  a.swap(b);
Swap(a, b) ==
    /\ ~crashed
    /\ vecs[a].live
    /\ vecs[b].live
    /\ Commit(swap(World, a, b), Op("swap", a, b, NoVec, 0))
    /\ run' = NoRun

\* every sum the loop of a + b would compute stays within MaxVal
SumsFit(a, b) ==
    IF AddRejects(vecs[a], vecs[b]) THEN TRUE
    ELSE \A i \in 1..(vecs[a].last_ + 1) :
            Cells(heap, vecs[a].ptr)[i] + Cells(heap, vecs[b].ptr)[i] <= MaxVal

\* SJCVector<T> ret(a + b);
Add(ret, a, b, nrvo, g) ==
    /\ ~crashed
    /\ ~vecs[ret].live
    /\ vecs[a].live
    /\ vecs[b].live
    /\ SumsFit(a, b)
    /\ Commit(operator_plus(World, a, b, ret, nrvo, g), Op("operator+", a, b, ret, 0))
    /\ run' = NoRun

\* the growth push_back would do stays within cap
GrowFits(v, cap) == NeedsGrow(vecs[v]) => GrowSize(vecs[v].size_) <= cap

\* v.push_back(x);
PushBack(v, x) ==
    /\ ~crashed
    /\ vecs[v].live
    /\ Commit(push_back(World, v, x), Op("push_back", v, NoVec, NoVec, x))
    /\ run' = IF run.v = v THEN [run EXCEPT !.vals = Append(@, x)] ELSE NoRun

\* v.resize(n);  out is what the build makes of an out-of-bounds copy
Resize(v, n) ==
    /\ ~crashed
    /\ vecs[v].live
    /\ LET r == resize(World, v, n)
       IN \E out \in Outcomes(r.spill, Victims(World, v)) :
             /\ vecs' = IF out.kind = "abort" THEN vecs ELSE r.vecs
             /\ heap' = IF out.kind = "abort" THEN heap
                        ELSE IF out.kind = "clobber"
                             THEN Clobber(r.heap, r.spill, out.victim, out.gap)
                             ELSE r.heap
             /\ crashed' = (out.kind = "abort")
    /\ lastOp' = Op("resize", v, NoVec, NoVec, n)
    /\ run' = NoRun

\* v.rename(newName);
Rename(v, newName) ==
    /\ ~crashed
    /\ vecs[v].live
    /\ Commit(rename(World, v, newName), Op("rename", v, NoVec, NoVec, 0))
    /\ run' = NoRun

\* v.resize(n); while no memory can be allocated
ResizeNoMemory(v, n) ==
    /\ ~crashed
    /\ vecs[v].live
    /\ LET r == resize_nomem(World, v, n)
       IN Commit(r, [Op("resize_nomem", v, NoVec, NoVec, n) EXCEPT !.ret = r.thrown])
    /\ run' = NoRun

\* v.push_back(x); while no memory can be allocated
PushBackNoMemory(v, x) ==
    /\ ~crashed
    /\ vecs[v].live
    /\ LET r == push_back_nomem(World, v, x)
       IN Commit(r, [Op("push_back_nomem", v, NoVec, NoVec, x) EXCEPT !.ret = r.thrown])
    /\ run' = NoRun

\* v goes out of scope
Destroy(v) ==
    /\ ~crashed
    /\ vecs[v].live
    /\ Commit(dtor(World, v), Op("dtor", v, NoVec, NoVec, 0))
    /\ run' = NoRun

\* ------------------------------------------- actions, raw-pointer variant
RawWorld == [vecs |-> vecs, heap |-> heap, bad |-> FALSE]

\* delete[] of something that is not an allocated buffer is undefined
\* behaviour: the build aborts on it, or goes on with the heap as it is
RawCommit(w, op) ==
    \E abort \in (IF w.bad THEN BOOLEAN ELSE {FALSE}) :
        /\ vecs' = IF abort THEN vecs ELSE w.vecs
        /\ heap' = IF abort THEN heap ELSE w.heap
        /\ crashed' = abort
        /\ lastOp' = op
        /\ run' = NoRun

RawConstructDefault(v) ==
    /\ ~crashed
    /\ ~vecs[v].live
    /\ RawCommit(raw_ctor_default(RawWorld, v), Op("ctor", v, NoVec, NoVec, 0))

RawConstructSize(v, c) ==
    /\ ~crashed
    /\ ~vecs[v].live
    /\ RawCommit(raw_ctor_size(RawWorld, v, c), Op("ctor", v, NoVec, NoVec, c))

RawConstructNamed(v, c) ==
    /\ ~crashed
    /\ ~vecs[v].live
    /\ RawCommit(raw_ctor_name(RawWorld, v, "nigel", c), Op("ctor", v, NoVec, NoVec, c))

RawCopyConstruct(v, src, g) ==
    /\ ~crashed
    /\ ~vecs[v].live
    /\ vecs[src].live
    /\ RawCommit(raw_copy_ctor(RawWorld, v, src, g), Op("copy_ctor", v, src, NoVec, 0))

RawMoveConstruct(v, src) ==
    /\ ~crashed
    /\ ~vecs[v].live
    /\ vecs[src].live
    /\ RawCommit(raw_move_ctor(RawWorld, v, src), Op("move_ctor", v, src, NoVec, 0))

\* a = b;
RawAssignCopy(a, b, g) ==
    /\ ~crashed
    /\ vecs[a].live
    /\ vecs[b].live
    /\ RawCommit(raw_dtor(assign(raw_copy_ctor(RawWorld, "copy", b, g), a), "copy"),
                 Op("copy_assign", a, b, NoVec, 0))

\* a = std::move(b);
RawAssignMove(a, b) ==
    /\ ~crashed
    /\ vecs[a].live
    /\ vecs[b].live
    /\ RawCommit(raw_dtor(assign(raw_move_ctor(RawWorld, "copy", b), a), "copy"),
                 Op("move_assign", a, b, NoVec, 0))

\* a = x + y;  the value operator+ returns is the parameter of operator=
RawAssignSum(a, x, y, nrvo, g) ==
    /\ ~crashed
    /\ vecs[a].live
    /\ vecs[x].live
    /\ vecs[y].live
    /\ SumsFit(x, y)
    /\ RawCommit(raw_dtor(assign(raw_operator_plus(RawWorld, x, y, "copy", nrvo, g), a), "copy"),
                 Op("assign_sum", a, x, NoVec, 0))

\* SJCVector<T> ret(a + b);
RawAdd(ret, a, b, nrvo, g) ==
    /\ ~crashed
    /\ ~vecs[ret].live
    /\ vecs[a].live
    /\ vecs[b].live
    /\ SumsFit(a, b)
    /\ RawCommit(raw_operator_plus(RawWorld, a, b, ret, nrvo, g), Op("operator+", a, b, ret, 0))

RawSwap(a, b) ==
    /\ ~crashed
    /\ vecs[a].live
    /\ vecs[b].live
    /\ RawCommit(swap(RawWorld, a, b), Op("swap", a, b, NoVec, 0))

RawPushBack(v, x) ==
    /\ ~crashed
    /\ vecs[v].live
    /\ RawCommit(raw_push_back(RawWorld, v, x), Op("push_back", v, NoVec, NoVec, x))

RawResize(v, n) ==
    /\ ~crashed
    /\ vecs[v].live
    /\ RawCommit(raw_resize(RawWorld, v, n), Op("resize", v, NoVec, NoVec, n))

RawDestroy(v) ==
    /\ ~crashed
    /\ vecs[v].live
    /\ RawCommit(raw_dtor(RawWorld, v), Op("dtor", v, NoVec, NoVec, 0))

\* --------------------------------------------------------- specifications
Tick == steps < MaxSteps /\ steps' = steps + 1

Still == steps' = steps

\* Spec: every operation on three variables, in runs of up to MaxSteps
\* statements.
Next ==
    \/ \E v \in Names : Tick /\ ConstructDefault(v)
    \/ \E v \in Names, c \in 0..MaxCap : Tick /\ ConstructSize(v, c)
    \/ \E v \in Names, c \in 0..MaxCap : Tick /\ ConstructNamed(v, c)
    \/ \E v \in Names, src \in Names : Tick /\ CopyConstruct(v, src)
    \/ \E v \in Names, src \in Names, g \in FirstGarbage : Tick /\ MoveConstruct(v, src, g)
    \/ \E v \in Names, g \in FirstGarbage : Tick /\ MoveAway(v, g)
    \/ \E a \in Names, b \in Names : Tick /\ AssignCopy(a, b)
    \/ \E a \in Names, b \in Names, g \in FirstGarbage : Tick /\ AssignMove(a, b, g)
    \/ \E a \in Names, b \in Names : Tick /\ Swap(a, b)
    \/ \E ret \in Names, a \in Names, b \in Names, nrvo \in BOOLEAN, g \in FirstGarbage :
          Tick /\ Add(ret, a, b, nrvo, g)
    \/ \E v \in Names, x \in PushVals : Tick /\ GrowFits(v, MaxCap) /\ PushBack(v, x)
    \/ \E v \in Names, n \in 0..MaxCap : Tick /\ Resize(v, n)
    \/ \E v \in Names : Tick /\ Destroy(v)

Spec == Init /\ [][Next]_vars

\* SpecOne: one variable, every run of constructions, appends, resizes,
\* moves-away and destructions, with capacities up to MaxCapOne.
NextOne ==
    \/ Still /\ ConstructDefault("a")
    \/ \E c \in 0..MaxCapOne : Still /\ ConstructSize("a", c)
    \/ \E c \in 0..MaxCapOne : Still /\ ConstructNamed("a", c)
    \/ \E x \in PushVals : Still /\ GrowFits("a", MaxCapOne) /\ PushBack("a", x)
    \/ \E n \in 0..MaxCapOne : Still /\ Resize("a", n)
    \/ \E g \in FirstGarbage : Still /\ MoveAway("a", g)
    \/ Still /\ Destroy("a")

SpecOne == Init /\ [][NextOne]_vars

\* SpecCopy: a is constructed, b is copy-constructed from a, both are
\* appended to and resized; b goes out of scope before a does.
NextCopy ==
    \/ \E c \in 0..MaxCap : Still /\ ConstructSize("a", c)
    \/ Still /\ CopyConstruct("b", "a")
    \/ \E v \in {"a", "b"}, x \in PushVals : Still /\ GrowFits(v, MaxCap) /\ PushBack(v, x)
    \/ \E v \in {"a", "b"}, n \in 0..MaxCap : Still /\ Resize(v, n)
    \/ Still /\ Destroy("b")
    \/ Still /\ ~vecs["b"].live /\ Destroy("a")

SpecCopy == Init /\ [][NextCopy]_vars

\* SpecAssign: two variables that are constructed, appended to, copy- and
\* move-assigned to each other and to themselves, move-constructed from
\* each other, and destroyed.
NextAssign ==
    \/ \E v \in {"a", "b"}, c \in 0..MaxCap : Still /\ ConstructSize(v, c)
    \/ \E v \in {"a", "b"}, x \in PushVals : Still /\ GrowFits(v, MaxCap) /\ PushBack(v, x)
    \/ \E x \in {"a", "b"}, y \in {"a", "b"} : Still /\ AssignCopy(x, y)
    \/ \E x \in {"a", "b"}, y \in {"a", "b"}, g \in FirstGarbage : Still /\ AssignMove(x, y, g)
    \/ \E v \in {"a", "b"}, src \in {"a", "b"}, g \in FirstGarbage :
          Still /\ MoveConstruct(v, src, g)
    \/ \E v \in {"a", "b"} : Still /\ Destroy(v)

SpecAssign == Init /\ [][NextAssign]_vars

\* SpecAdd: operands a and b are constructed, appended to and moved from;
\* c is only ever the result of a sum of two of them, and goes out of scope
\* before the operands are touched again.
NoSum == ~vecs["c"].live

NextAdd ==
    \/ \E v \in {"a", "b"}, c \in 0..MaxCap : Still /\ NoSum /\ ConstructSize(v, c)
    \/ \E v \in {"a", "b"}, x \in PushVals :
          Still /\ NoSum /\ GrowFits(v, MaxCap) /\ PushBack(v, x)
    \/ \E v \in {"a", "b"}, g \in FirstGarbage : Still /\ NoSum /\ MoveAway(v, g)
    \/ \E x \in {"a", "b"}, y \in {"a", "b"}, nrvo \in BOOLEAN, g \in FirstGarbage :
          Still /\ Add("c", x, y, nrvo, g)
    \/ \E v \in {"a", "b"} : Still /\ NoSum /\ Destroy(v)
    \/ Still /\ Destroy("c")

SpecAdd == Init /\ [][NextAdd]_vars

\* SpecLabel: two labelled variables that are renamed, copied, moved,
\* assigned and swapped.
NextLabel ==
    \/ \E v \in {"a", "b"}, c \in 0..MaxCapLabel : Still /\ ConstructNamed(v, c)
    \/ \E v \in {"a", "b"}, l \in Labels : Still /\ Rename(v, l)
    \/ \E v \in {"a", "b"}, x \in PushVals :
          Still /\ GrowFits(v, MaxCapLabel) /\ PushBack(v, x)
    \/ \E v \in {"a", "b"}, src \in {"a", "b"} : Still /\ CopyConstruct(v, src)
    \/ \E v \in {"a", "b"}, src \in {"a", "b"}, g \in FirstGarbage :
          Still /\ MoveConstruct(v, src, g)
    \/ \E x \in {"a", "b"}, y \in {"a", "b"} : Still /\ AssignCopy(x, y)
    \/ \E x \in {"a", "b"}, y \in {"a", "b"}, g \in FirstGarbage : Still /\ AssignMove(x, y, g)
    \/ \E x \in {"a", "b"}, y \in {"a", "b"} : Still /\ Swap(x, y)
    \/ \E v \in {"a", "b"} : Still /\ Destroy(v)

SpecLabel == Init /\ [][NextLabel]_vars

\* SpecNoMem: one variable; any resize or append may find the allocator
\* out of memory, and the caller goes on afterwards.
NextNoMem ==
    \/ \E c \in 0..MaxCapOne : Still /\ ConstructSize("a", c)
    \/ \E x \in PushVals : Still /\ GrowFits("a", MaxCapOne) /\ PushBack("a", x)
    \/ \E n \in 0..MaxCapOne : Still /\ Resize("a", n)
    \/ \E n \in 0..MaxCapOne : Still /\ ResizeNoMemory("a", n)
    \/ \E x \in PushVals : Still /\ GrowFits("a", MaxCapOne) /\ PushBackNoMemory("a", x)
    \/ Still /\ Destroy("a")

SpecNoMem == Init /\ [][NextNoMem]_vars

\* SpecRaw: two variables of the raw-pointer variant under every operation
\* that allocates, hands over or releases a buffer.
Two == {"a", "b"}

RawPushVals == {1}

NextRaw ==
    \/ \E v \in Two : Still /\ RawConstructDefault(v)
    \/ \E v \in Two, c \in 0..MaxCapRaw : Still /\ RawConstructSize(v, c)
    \/ \E v \in Two, c \in 0..MaxCapRaw : Still /\ RawConstructNamed(v, c)
    \/ \E v \in Two, src \in Two, g \in FirstGarbage : Still /\ RawCopyConstruct(v, src, g)
    \/ \E v \in Two, src \in Two : Still /\ RawMoveConstruct(v, src)
    \/ \E x \in Two, y \in Two, g \in FirstGarbage : Still /\ RawAssignCopy(x, y, g)
    \/ \E x \in Two, y \in Two : Still /\ RawAssignMove(x, y)
    \/ \E v \in Two, x \in Two, y \in Two, nrvo \in BOOLEAN, g \in FirstGarbage :
          Still /\ RawAssignSum(v, x, y, nrvo, g)
    \/ \E v \in Two, x \in Two, y \in Two, nrvo \in BOOLEAN, g \in FirstGarbage :
          Still /\ RawAdd(v, x, y, nrvo, g)
    \/ \E x \in Two, y \in Two : Still /\ RawSwap(x, y)
    \/ \E v \in Two, x \in RawPushVals : Still /\ GrowFits(v, MaxCapRaw) /\ RawPushBack(v, x)
    \/ \E v \in Two, n \in 0..MaxCapRaw : Still /\ RawResize(v, n)
    \/ \E v \in Two : Still /\ RawDestroy(v)

SpecRaw == Init /\ [][NextRaw]_vars

\* ------------------------------------------------------------ observations
\* occupied-count, capacity and the occupied elements of v in world w
Count(w, v) == w.vecs[v].last_ + 1

Capacity(w, v) == w.vecs[v].size_

Elems(w, v) == [i \in 1..Count(w, v) |-> Cells(w.heap, w.vecs[v].ptr)[i]]

World2 == [vecs |-> vecs', heap |-> heap']

Max(x, y) == IF x >= y THEN x ELSE y

\* ------------------------------------------------------------------ claims

\* C1: in every reachable state every live container has
\* 0 <= last_ + 1 <= size_, moved-from and capacity-0 containers included.
C1_CursorWithinCapacity ==
    \A v \in Slots : vecs[v].live =>
        /\ vecs[v].last_ >= -1
        /\ vecs[v].last_ + 1 <= vecs[v].size_

\* a moved-from container next to one constructed with capacity 0
C1_Witness ==
    /\ lastOp.op = "move_ctor"
    /\ vecs[lastOp.rhs].live /\ vecs[lastOp.rhs].ptr = NULL /\ vecs[lastOp.rhs].size_ = 0
    /\ \E u \in Names : vecs[u].live /\ vecs[u].ptr /= NULL /\ vecs[u].size_ = 0

\* C2 (as claimed): right after any constructor called with capacity c the
\* container is empty and its capacity is max(c, 1).
C2_CapacityAtLeastOne ==
    lastOp.op = "ctor" =>
        /\ Count(World, lastOp.this) = 0
        /\ Capacity(World, lastOp.this) = Max(lastOp.arg, 1)

\* C3: after k consecutive appends to a freshly constructed container the
\* occupied-count is k, slots 0..k-1 hold the appended values in call order
\* and the capacity is at least k.
C3_AppendsInOrder ==
    run.v /= NoVec =>
        /\ Count(World, run.v) = Len(run.vals)
        /\ Elems(World, run.v) = run.vals
        /\ Capacity(World, run.v) >= Len(run.vals)

C3_Witness ==
    /\ run.v /= NoVec
    /\ Len(run.vals) = 4
    /\ run.vals[1] /= run.vals[2]
    /\ lastOp.op = "push_back"
    /\ lastOp.preSize = 3

\* a step that is v.push_back(x)
IsPush(v) == lastOp'.op = "push_back" /\ lastOp'.this = v /\ ~crashed'

\* C4: an append changes the capacity iff the container was full before the
\* call, and then the new capacity is 2 * old + 1.
C4_GrowIffFull ==
    [][\A v \in Names : IsPush(v) =>
          LET full == Count(World, v) = Capacity(World, v)
          IN /\ (Capacity(World2, v) /= Capacity(World, v)) <=> full
             /\ full => Capacity(World2, v) = 2 * Capacity(World, v) + 1]_vars

\* an append that found capacity 3 full and grew it to 7
C4_Witness ==
    /\ lastOp.op = "push_back"
    /\ lastOp.preSize = 3
    /\ vecs[lastOp.this].size_ = 7
    /\ vecs[lastOp.this].last_ = 3

\* the state right after an append to a container that had capacity 1 and
\* occupied-count 0
AfterFirstAppend(op, me) ==
    op.op = "push_back" /\ op.preSize = 1 /\ me.last_ = 0

\* C5 (as claimed): the first append to a container of capacity 1 and
\* occupied-count 0 grows the capacity to 3 before inserting; a second
\* append then gives occupied-count 2, both values in order, capacity 3.
C5_FirstAppendGrows ==
    [][\A v \in Names :
          /\ (IsPush(v) /\ AfterFirstAppend(lastOp', vecs'[v])) =>
                /\ Capacity(World2, v) = 3
                /\ Elems(World2, v) = <<lastOp'.arg>>
          /\ (IsPush(v) /\ lastOp.this = v /\ AfterFirstAppend(lastOp, vecs[v])) =>
                /\ Capacity(World2, v) = 3
                /\ Elems(World2, v) = <<lastOp.arg, lastOp'.arg>>]_vars

\* C5 (amended): the first append leaves the capacity at 1; the second one
\* finds the container full and grows it to 3 before inserting.
C5_SecondAppendGrows ==
    [][\A v \in Names :
          /\ (IsPush(v) /\ AfterFirstAppend(lastOp', vecs'[v])) =>
                /\ Capacity(World2, v) = 1
                /\ Elems(World2, v) = <<lastOp'.arg>>
          /\ (IsPush(v) /\ lastOp.this = v /\ AfterFirstAppend(lastOp, vecs[v])) =>
                /\ Capacity(World, v) = 1
                /\ Capacity(World2, v) = 3
                /\ Elems(World2, v) = <<lastOp.arg, lastOp'.arg>>]_vars

C5_Witness ==
    /\ lastOp.op = "push_back"
    /\ lastOp.preSize = 1
    /\ vecs[lastOp.this].size_ = 3
    /\ vecs[lastOp.this].last_ = 1
    /\ Elems(World, lastOp.this) = <<1, 2>>

\* u's occupied-count, capacity and elements are the same after the step
Untouched(u) ==
    /\ Count(World2, u) = Count(World, u)
    /\ Capacity(World2, u) = Capacity(World, u)
    /\ Elems(World2, u) = Elems(World, u)

\* a step that is v.push_back(x) or v.resize(n) and returns
IsMutation(v) == lastOp'.op \in {"push_back", "resize"} /\ lastOp'.this = v /\ ~crashed'

\* C6 (as claimed): while b is a copy constructed from a, no append to or
\* resize of one of them changes the other's occupied-count, capacity or
\* elements, and the two own different buffers.
C6_CopyIndependence ==
    [][\A v \in {"a", "b"}, u \in {"a", "b"} :
          (u /= v /\ vecs["a"].live /\ vecs["b"].live /\ IsMutation(v)) =>
              /\ Untouched(u)
              /\ vecs'[u].ptr /= vecs'[v].ptr]_vars

\* a step that is x = y (copy-assignment)
IsCopyAssign(x, y) == lastOp'.op = "copy_assign" /\ lastOp'.this = x /\ lastOp'.rhs = y

\* C7: after x = y, self-assignment included, x has the occupied-count and
\* the elements y had, y is unchanged, and distinct x and y own distinct
\* buffers.
C7_CopyAssign ==
    [][\A x \in Names, y \in Names : IsCopyAssign(x, y) =>
          /\ Count(World2, x) = Count(World, y)
          /\ Elems(World2, x) = Elems(World, y)
          /\ Untouched(y)
          /\ x /= y => vecs'[x].ptr /= vecs'[y].ptr]_vars

\* a self-assignment of a two-element container, next to an equal container
\* with a buffer of its own
C7_Witness ==
    /\ lastOp.op = "copy_assign"
    /\ lastOp.this = "a" /\ lastOp.rhs = "a"
    /\ Elems(World, "a") = <<1, 2>>
    /\ vecs["b"].live
    /\ Elems(World, "b") = <<1, 2>>
    /\ vecs["a"].ptr /= vecs["b"].ptr

\* a step that move-constructs x from y or move-assigns y to x
IsMove(x, y) ==
    lastOp'.op \in {"move_ctor", "move_assign"} /\ lastOp'.this = x /\ lastOp'.rhs = y

\* C8: after x is move-constructed or move-assigned from a different y, x
\* has y's former occupied-count, capacity, elements and buffer, y has
\* occupied-count 0, capacity 0 and no buffer; destroying a container that
\* has no buffer leaves the heap as it is.
C8_MoveCorrect ==
    [][/\ \A x \in Names, y \in Names : (x /= y /\ IsMove(x, y)) =>
             /\ Count(World2, x) = Count(World, y)
             /\ Capacity(World2, x) = Capacity(World, y)
             /\ Elems(World2, x) = Elems(World, y)
             /\ vecs'[x].ptr = vecs[y].ptr
             /\ vecs'[y].live
             /\ Count(World2, y) = 0
             /\ Capacity(World2, y) = 0
             /\ vecs'[y].ptr = NULL
       /\ \A v \in Names :
             (lastOp'.op = "dtor" /\ lastOp'.this = v /\ vecs[v].ptr = NULL) =>
                 heap' = heap]_vars

\* b has just taken two elements from a by move-assignment
C8_Witness ==
    /\ lastOp.op = "move_assign"
    /\ lastOp.this = "b" /\ lastOp.rhs = "a"
    /\ Elems(World, "b") = <<1, 2>>
    /\ vecs["a"].live /\ vecs["a"].ptr = NULL /\ vecs["a"].size_ = 0

\* a step that constructs r from x + y
IsAdd(x, y, r) ==
    lastOp'.op = "operator+" /\ lastOp'.this = x /\ lastOp'.rhs = y /\ lastOp'.ret = r

\* C9: for non-empty x and y of equal occupied-count, x + y has their
\* last_, slot i holds x[i] + y[i], its buffer is neither operand's, and
\* the operands are unchanged.
C9_ElementwiseSum ==
    [][\A x \in Names, y \in Names, r \in Names :
          (IsAdd(x, y, r) /\ Count(World, x) >= 1 /\ Count(World, x) = Count(World, y)) =>
              /\ vecs'[r].last_ = vecs[x].last_
              /\ \A i \in 1..Count(World, x) :
                    Elems(World2, r)[i] = Elems(World, x)[i] + Elems(World, y)[i]
              /\ vecs'[r].ptr /= NULL
              /\ vecs'[r].ptr /= vecs'[x].ptr
              /\ vecs'[r].ptr /= vecs'[y].ptr
              /\ Untouched(x)
              /\ Untouched(y)]_vars

\* c = a + b with a = [1, 2] and b = [1, 1]
C9_Witness ==
    /\ lastOp.op = "operator+"
    /\ lastOp.this = "a" /\ lastOp.rhs = "b"
    /\ Elems(World, "a") = <<1, 2>>
    /\ Elems(World, "b") = <<1, 1>>
    /\ Elems(World, "c") = <<2, 3>>

\* C10 (as claimed): when an operand of x + y is empty or the occupied-counts
\* differ, the result is what the default constructor produces
\* (occupied-count 0, default capacity) and the operands are unchanged.
C10_RejectGivesDefault ==
    [][\A x \in Names, y \in Names, r \in Names :
          (/\ IsAdd(x, y, r)
           /\ (Count(World, x) = 0 \/ Count(World, y) = 0
               \/ Count(World, x) /= Count(World, y))) =>
              /\ Count(World2, r) = 0
              /\ Capacity(World2, r) = Capacity(ctor_default(World, r), r)
              /\ Untouched(x)
              /\ Untouched(y)]_vars

\* a step that is v.resize(n), whatever the build makes of it
IsResize(v) == lastOp'.op = "resize" /\ lastOp'.this = v

Min(x, y) == IF x <= y THEN x ELSE y

\* the first n of the elements s
Prefix(s, n) == [i \in 1..n |-> s[i]]

\* C11 (as claimed): v.resize(n) with 0 <= n < occupied-count returns with
\* occupied-count n, capacity n and the first n elements in their order.
C11_ShrinkKeepsPrefix ==
    [][\A v \in Names : (IsResize(v) /\ lastOp'.arg < Count(World, v)) =>
          /\ ~crashed'
          /\ Count(World2, v) = lastOp'.arg
          /\ Capacity(World2, v) = lastOp'.arg
          /\ Elems(World2, v) = Prefix(Elems(World, v), lastOp'.arg)]_vars

\* C12 (as claimed): v.resize(n) copies min(occupied-count, new capacity)
\* elements, writes none past the end of the new storage and reads none
\* past the end of the old storage.
C12_CopiesMinimum ==
    [][\A v \in Names : IsResize(v) =>
          LET me == vecs[v]
              n == IF lastOp'.arg = 0 THEN 1 ELSE lastOp'.arg
          IN /\ me.last_ >= 0 => ResizeCopyCount(me) = Min(Count(World, v), n)
             /\ resize(World, v, lastOp'.arg).spill = <<>>
             /\ me.last_ >= 0 => ResizeCopyCount(me) <= Len(Cells(heap, me.ptr))]_vars

\* C13 (as claimed): v.resize(c) with c the current capacity leaves the
\* occupied-count, the capacity and the elements as they were and puts them
\* in a new buffer.
C13_SameCapacityRoundTrip ==
    [][\A v \in Names : (IsResize(v) /\ lastOp'.arg = Capacity(World, v)) =>
          /\ ~crashed'
          /\ Untouched(v)
          /\ vecs'[v].ptr /= vecs[v].ptr]_vars

\* C13 (amended): the round trip holds for every capacity of at least 1,
\* and the old buffer is released; a container of capacity 0 (moved-from)
\* comes out of resize(0) empty with capacity 1.
C13_RoundTripFromOne ==
    [][\A v \in Names : (IsResize(v) /\ lastOp'.arg = Capacity(World, v)) =>
          /\ ~crashed'
          /\ Count(World2, v) = Count(World, v)
          /\ Elems(World2, v) = Elems(World, v)
          /\ vecs'[v].ptr /= vecs[v].ptr
          /\ heap'[vecs'[v].ptr].alloc
          /\ Capacity(World, v) >= 1 =>
                /\ Capacity(World2, v) = Capacity(World, v)
                /\ ~heap'[vecs[v].ptr].alloc
          /\ Capacity(World, v) = 0 => Capacity(World2, v) = 1]_vars

\* resize(3) of a container of capacity 3 that holds 1, 2
C13_Witness ==
    /\ lastOp.op = "resize"
    /\ lastOp.arg = 3 /\ lastOp.preSize = 3
    /\ ~crashed
    /\ vecs[lastOp.this].size_ = 3
    /\ Elems(World, lastOp.this) = <<1, 2>>

\* C16: a step changes the label of a container that exists before and
\* after it only if it is a rename of that container: swap, copy- and
\* move-assignment leave both labels alone, and a move-constructed container
\* starts with the empty label, not with the source's.
C16_LabelStays ==
    [][/\ \A v \in Names :
             (/\ vecs[v].live /\ vecs'[v].live
              /\ ~(lastOp'.op = "rename" /\ lastOp'.this = v)) =>
                 vecs'[v].name_ = vecs[v].name_
       /\ \A x \in Names, y \in Names :
             (lastOp'.op = "move_ctor" /\ lastOp'.this = x /\ lastOp'.rhs = y) =>
                 vecs'[x].name_ = ""]_vars

\* nigel has just been move-assigned the two elements of mary
C16_Witness ==
    /\ lastOp.op = "move_assign"
    /\ lastOp.this = "a" /\ lastOp.rhs = "b"
    /\ vecs["a"].name_ = "nigel"
    /\ vecs["b"].name_ = "mary"
    /\ vecs["b"].ptr = NULL
    /\ Elems(World, "a") = <<1, 2>>

\* a step that is v.resize(n) or an append that has to grow v, with no memory
\* to be had
IsAllocFailure(v) ==
    /\ lastOp'.this = v
    /\ \/ lastOp'.op = "resize_nomem"
       \/ lastOp'.op = "push_back_nomem" /\ NeedsGrow(vecs[v])

\* C15 (as claimed): when the allocation inside resize fails, capacity,
\* occupied-count, buffer and elements are unchanged, the append stores
\* nothing, and the call returns without raising an error.
C15_AllocFailureIsQuiet ==
    [][\A v \in Names : IsAllocFailure(v) =>
          /\ Untouched(v)
          /\ vecs'[v] = vecs[v]
          /\ heap' = heap
          /\ lastOp'.ret = NoVec]_vars

\* the live containers that hold buffer p
Owners(p) == {v \in Slots : vecs[v].live /\ vecs[v].ptr = p}

\* C14: between any two statements no delete[] has hit anything but an
\* allocated buffer, every buffer a live container holds is allocated and
\* held by that container alone, every allocated buffer is held by a live
\* container, and no parameter object or temporary outlives its statement;
\* so once all containers are destroyed every buffer has been released once.
C14_OwnedOnceReleasedOnce ==
    /\ ~crashed
    /\ \A t \in Temps : ~vecs[t].live
    /\ \A v \in Slots : (vecs[v].live /\ vecs[v].ptr /= NULL) => heap[vecs[v].ptr].alloc
    /\ \A p \in BufIds : Cardinality(Owners(p)) <= 1
    /\ \A p \in BufIds : heap[p].alloc => Owners(p) /= {}

\* a = a + b has just run: the sum is in a, b is as it was, and of the
\* buffers the statement allocated only the one a holds is left
C14_Witness ==
    /\ lastOp.op = "assign_sum"
    /\ lastOp.this = "a"
    /\ Elems(World, "a") = <<2>>
    /\ Elems(World, "b") = <<1>>
    /\ Cardinality({p \in BufIds : heap[p].alloc}) = 2

====
